---- MODULE Spec2Model ----
(***************************************************************************)
(* TransmissionRPCClient (src/TransmissionRPCClient.js): the session-token *)
(* retry loop of http() and the public operations built on it.             *)
(*                                                                         *)
(* One invocation is one call of a public operation.  The only suspension  *)
(* point of an invocation is `await axios.request(request)`; everything    *)
(* the client does between two suspensions runs to completion on the       *)
(* JavaScript event loop and is one action here.  The RPC server and the   *)
(* network are the environment: the server answers a request in flight,    *)
(* and the answer is delivered to the client in a later step.              *)
(***************************************************************************)
EXTENDS Integers, Sequences, FiniteSets, TLC

\* Bounds of the model.
MaxInv == 2        \* invocations in flight at once (a settled one makes room)
MaxToken == 2      \* session ids the server issues in one run (1..MaxToken)

\* this.sessionId = null (constructor, disconnect): the absent token.
NoToken == 0

Inv == 1..MaxInv
Clients == {1, 2}
Tokens == 1..MaxToken

VARIABLES
  sessionId,    \* [Clients -> {NoToken} \cup Tokens]: this.sessionId
  url,          \* [Clients -> STRING]: this.url
  auth,         \* [Clients -> STRING]: this.auth
  inv,          \* [Inv -> invocation record]: the promises handed to callers
  serverToken,  \* [Clients -> Tokens]: the session id the server accepts now
  last409,      \* [Clients -> {NoToken} \cup Tokens]: token of the last 409 handled
  hist          \* [Clients -> record]: what has happened on the client so far

vars == <<sessionId, url, auth, inv, serverToken, last409, hist>>

-----------------------------------------------------------------------------
(* The public operations, grouped by the shape of their body.              *)

\* resolve(resp.result === "success" ? resp.arguments : null), ids && { ids }
StartOps == {"startTorrents", "startNowTorrents", "stopTorrents",
             "verifyTorrents", "reannounceTorrents"}

\* resolve(resp.result === "success" ? resp.arguments : null)
NullOps == StartOps \cup {"setTorrents", "getTorrents"}

\* new Promise(async (resolve) => ...): the executor names no reject
QueueOps == {"queueMoveTop", "queueMoveUp", "queueMoveDown", "queueMoveBottom"}

\* resolve(resp.result === "success" ? resp.arguments : resp.result)
RawOps == {"addTorrent", "removeTorrent", "moveTorrent", "renameTorrent",
           "setSession", "getSession", "sessionStats", "blocklistUpdate",
           "portTest", "freeSpace", "groupSet", "groupGet"} \cup QueueOps

Ops == NullOps \cup RawOps \cup {"disconnect"}

\* The operations Spec exercises concurrently; SpecFacade exercises them all.
CoreOps == {"getTorrents", "disconnect"}

\* An argument of a call is given by the caller or left out.
ArgKinds == {"given", "omitted"}

\* The remote method each operation passes to http().
RemoteMethod(op) ==
  CASE op = "startTorrents"      -> "torrent-start"
    [] op = "startNowTorrents"   -> "torrent-start-now"
    [] op = "stopTorrents"       -> "torrent-stop"
    [] op = "verifyTorrents"     -> "torrent-verify"
    [] op = "reannounceTorrents" -> "torrent-reannounce"
    [] op = "setTorrents"        -> "torrent-set"
    [] op = "getTorrents"        -> "torrent-get"
    [] op = "addTorrent"         -> "torrent-add"
    [] op = "removeTorrent"      -> "torrent-remove"
    [] op = "moveTorrent"        -> "torrent-set-location"
    [] op = "renameTorrent"      -> "torrent-rename-path"
    [] op = "setSession"         -> "session-set"
    [] op = "getSession"         -> "session-get"
    [] op = "sessionStats"       -> "session-stats"
    [] op = "blocklistUpdate"    -> "blocklist-update"
    [] op = "portTest"           -> "blocklist-update"
    [] op = "disconnect"         -> "session-close"
    [] op = "queueMoveTop"       -> "queue-move-top"
    [] op = "queueMoveUp"        -> "queue-move-up"
    [] op = "queueMoveDown"      -> "queue-move-down"
    [] op = "queueMoveBottom"    -> "queue-move-bottom"
    [] op = "freeSpace"          -> "free-space"
    [] op = "groupSet"           -> "group-set"
    [] op = "groupGet"           -> "group-get"

\* Object.assign(ids && { ids }) throws a TypeError when ids is undefined.
PayloadThrows(op, arg) == op \in StartOps /\ arg = "omitted"

\* getTorrents without its default parameter values: JSON.stringify leaves
\* out the undefined keys.
PayloadWithoutDefaults(op, arg) ==
  IF arg = "given" THEN "keys"
  ELSE IF op = "getTorrents" THEN "{}" ELSE "undefined"

\* The second argument of http(), as the text JSON.stringify makes of it; a
\* value the caller gave appears under its parameter's name, and undefined
\* is a key JSON.stringify leaves out.
Payload(op, arg) ==
  CASE op \in StartOps ->
         IF arg = "given" THEN "{ids:ids}" ELSE "undefined"
    [] op = "getTorrents" ->
         IF arg = "given" THEN "{fields:fields,ids:ids}"
         ELSE "{fields:[id,name,status,downloadedEver,uploadedEver],ids:0}"
    [] op = "getSession" ->
         IF arg = "given" THEN "{fields:fields}" ELSE "{}"
    [] op = "freeSpace" ->
         IF arg = "given" THEN "{path:path}" ELSE "{}"
    [] op \in {"sessionStats", "blocklistUpdate", "portTest", "disconnect"} ->
         "undefined"
    [] op \in QueueOps ->
         IF arg = "given" THEN "ids" ELSE "undefined"
    [] op = "setTorrents" ->
         IF arg = "given" THEN "fields" ELSE "undefined"
    [] op = "groupGet" ->
         IF arg = "given" THEN "group" ELSE "undefined"
    [] OTHER ->
         IF arg = "given" THEN "keys" ELSE "undefined"

-----------------------------------------------------------------------------
(* Requests, responses and the record of one invocation.                   *)

NoReq == [url |-> "", auth |-> "", token |-> NoToken, method |-> "", args |-> ""]
NoResp == [status |-> -1, token |-> NoToken, result |-> "", arguments |-> ""]

\* A request whose Authorization header is left empty once a session token
\* is cached.
BuildRequestSessionOnly(c, tok, method, keys) ==
  [url |-> url[c], auth |-> IF tok = NoToken THEN auth[c] ELSE "",
   token |-> tok, method |-> method, args |-> keys]

\* const request = {url, method: "post", headers: {...}, data: JSON.stringify(...)}
BuildRequest(c, tok, method, keys) ==
  [url |-> url[c], auth |-> auth[c], token |-> tok, method |-> method,
   args |-> keys]

\* What the server can put in the arguments of a response, and the results
\* other than "success" it can report.
SomeArguments == "{torrents:[]}"
FailureResults == {"no such torrent"}
Results == {"success"} \cup FailureResults
ResponseData == [result : Results, arguments : {SomeArguments}]

\* The statuses of a failed exchange that are neither 409 nor 401; 0 is a
\* network error, which has no response (e.response is undefined).
FailStatuses == {0, 500}

\* The error axios.request raises for a failed exchange.
AxiosError(status) ==
  CASE status = 0 -> "AxiosError: Network Error"
    [] status = 401 -> "AxiosError: Request failed with status code 401"
    [] status = 409 -> "AxiosError: Request failed with status code 409"
    [] OTHER -> "AxiosError: Request failed with status code 500"

\* pc is the state of the promise the caller holds: idle (never called),
\* sent (request in flight), answered (response in flight), resolved,
\* rejected, abandoned (the executor threw: the promise stays pending for
\* ever).  While the invocation is in flight, sent and challenges count the
\* requests it has sent and the 409s it has handled, req is its request and
\* resp the last response made for it.  Once it is over, value is what the
\* caller's promise settled with, or what the executor threw; http is the
\* state of the promise http() returned and httpValue the error it was
\* rejected with; resp is the response that ended it.
IdleInv ==
  [client |-> 1, op |-> "", arg |-> "", pc |-> "idle", sent |-> 0,
   challenges |-> 0, req |-> NoReq, resp |-> NoResp, value |-> "",
   http |-> "", httpValue |-> ""]

InFlight(r) == r.pc \in {"sent", "answered"}

\* new URL(url).toString() of the endpoint a client is built with, and
\* Buffer.from(`${user}:${password}`).toString("base64") of its credential.
EndpointOf(c) == IF c = 1 THEN "http://host-a:9091/transmission/rpc"
                 ELSE "http://host-b:9091/transmission/rpc"
CredentialOf(c) == IF c = 1 THEN "dXNlcjpwYXNz" ELSE "YWRtaW46c2VjcmV0"

\* What has happened on a client: closed, a disconnect has returned and no
\* invocation was started since; reset, a disconnect has returned and no 409
\* was handled since.
NoHist == [closed |-> FALSE, reset |-> FALSE]

Init ==
  /\ sessionId = [c \in Clients |-> NoToken]
  /\ url = [c \in Clients |-> EndpointOf(c)]
  /\ auth = [c \in Clients |-> CredentialOf(c)]
  /\ inv = [i \in Inv |-> IdleInv]
  /\ serverToken = [c \in Clients |-> 1]
  /\ last409 = [c \in Clients |-> NoToken]
  /\ hist = [c \in Clients |-> NoHist]

-----------------------------------------------------------------------------
(* The client: the branches of http() and of the operations around it.     *)

\* e?.response?.status === 409
IsChallengeOr401(status) == status \in {409, 401}
IsChallenge(status) == status = 409

\* e?.response?.status === 401
IsUnauthorized(status) == status = 401

\* this.sessionId = e.response.headers["x-transmission-session-id"]
ChallengeTokenMissing(resp) == NoToken
ChallengeTokenAltered(resp) == resp.token + 1
ChallengeToken(resp) == resp.token

\* The token the request built after a 409 carries: the loop reads
\* this.sessionId again, right after the catch block stored the token.
RetryTokenStale(stored, old) == old
RetryToken(stored, old) == stored

\* The requests one 409 makes the loop send: `continue` goes round once.
RetriesPerChallenge == 1

\* while (true): the loop goes round whatever the number of 409s so far.
LoopContinuesOnce(challenges) == challenges < 1
LoopContinues(challenges) == TRUE

\* What the 409 branch leaves in this.sessionId: the token of the response,
\* whatever was cached.
StoredTokenIfAbsent(cached, header) ==
  IF cached = NoToken THEN header ELSE cached
StoredToken(cached, header) == header

\* throw "Unauthorized to access RPC Server", inside the async executor of
\* http(): the executor's own promise is rejected and nothing settles the
\* promise http() returned.
UnauthorizedOutcome == "abandoned"

\* return reject(e), in http(): the promise of http() is rejected with e.
FailureOutcome == "rejected"

\* The error http() rejects with.
FailureErrorWrapped(e) == "Error: request failed"
FailureError(e) == e

\* Whether the executor of the operation's promise names reject: disconnect
\* and queueMove* are written `new Promise(async (resolve) => ...)`, so
\* their `reject(e)` raises a ReferenceError inside the executor.
HasReject(op) == op \notin (QueueOps \cup {"disconnect"})

\* The value an operation resolves to for a decoded response.
SettleValueNull(op, data) ==
  IF op = "disconnect" THEN "undefined"
  ELSE IF data.result = "success" THEN data.arguments
  ELSE "null"
SettleValue(op, data) ==
  IF op = "disconnect" THEN "undefined"
  ELSE IF data.result = "success" THEN data.arguments
  ELSE IF op \in NullOps THEN "null"
  ELSE data.result

\* this.sessionId = null, after `await this.http("session-close")`.
TokenAfterReturnKept(op, tok) == tok
TokenAfterReturnAlwaysReset(op, tok) == NoToken
TokenAfterReturn(op, tok) == IF op = "disconnect" THEN NoToken ELSE tok

\* A token cached for the class, not for the instance.
FirstTokenShared(c) == sessionId[1]

\* The token the first request of an invocation carries.
FirstToken(c) == sessionId[c]

\* A call of a public operation: the executor runs up to the first await.
\* The invocation takes the first record that is not in flight.
Call(c, i, op, arg) ==
  /\ ~InFlight(inv[i])
  /\ \A j \in Inv : j < i => InFlight(inv[j])
  /\ inv' = [inv EXCEPT ![i] =
       IF PayloadThrows(op, arg)
       THEN [IdleInv EXCEPT !.client = c, !.op = op, !.arg = arg,
                            !.pc = "rejected", !.value = "TypeError"]
       ELSE [IdleInv EXCEPT !.client = c, !.op = op, !.arg = arg,
                            !.pc = "sent", !.sent = 1, !.http = "pending",
                            !.req = BuildRequest(c, FirstToken(c),
                                      RemoteMethod(op), Payload(op, arg))]]
  /\ hist' = [hist EXCEPT ![c].closed = FALSE]
  /\ UNCHANGED <<sessionId, url, auth, serverToken, last409>>

\* The record of an invocation that is over: what it ended with, and the
\* response that ended it.
Over(r, pc, value, resp, http, httpValue) ==
  [IdleInv EXCEPT !.client = r.client, !.op = r.op, !.arg = r.arg,
                  !.pc = pc, !.value = value, !.resp = resp,
                  !.http = http, !.httpValue = httpValue]

\* The response resolves axios.request: http() resolves with resp.data, the
\* decoded body, and the operation's continuation settles the caller's
\* promise.
OnResolved(i, data) ==
  LET r == inv[i]
      c == r.client IN
  /\ r.pc = "answered"
  /\ r.resp.status = 200
  /\ inv' = [inv EXCEPT ![i] =
       Over(r, "resolved", SettleValue(r.op, data),
            [r.resp EXCEPT !.result = data.result,
                           !.arguments = data.arguments],
            "resolved", "")]
  /\ sessionId' = [sessionId EXCEPT ![c] = TokenAfterReturn(r.op, sessionId[c])]
  /\ hist' = [hist EXCEPT ![c].closed = (r.op = "disconnect") \/ @,
                          ![c].reset = (r.op = "disconnect") \/ @]
  /\ UNCHANGED <<url, auth, serverToken, last409>>

\* The catch block of http(), run for the failed exchange resp of invocation
\* i: on a 409 it stores the token and goes round the loop, which builds and
\* sends the request again before anything else runs; on a 401 it throws;
\* on anything else it rejects with e, and the catch block of the operation
\* that awaits http() runs.
CatchBlock(i, resp) ==
  LET r == inv[i]
      c == r.client
      e == AxiosError(resp.status)
      tok == StoredToken(sessionId[c], ChallengeToken(resp)) IN
  /\ IF IsChallenge(resp.status) /\ LoopContinues(r.challenges)
     THEN /\ sessionId' = [sessionId EXCEPT ![c] = tok]
          /\ last409' = [last409 EXCEPT ![c] = resp.token]
          /\ inv' = [inv EXCEPT
               ![i].pc = "sent",
               ![i].sent = r.sent + RetriesPerChallenge,
               ![i].challenges = r.challenges + 1,
               ![i].resp = resp,
               ![i].req = BuildRequest(c, RetryToken(tok, r.req.token),
                            RemoteMethod(r.op), Payload(r.op, r.arg))]
          /\ hist' = [hist EXCEPT ![c].reset = FALSE]
     ELSE /\ inv' = [inv EXCEPT ![i] =
               IF IsUnauthorized(resp.status)
               THEN Over(r, UnauthorizedOutcome,
                         "Unauthorized to access RPC Server", resp,
                         "pending", "")
               ELSE IF HasReject(r.op)
               THEN Over(r, FailureOutcome, FailureError(e), resp,
                         FailureOutcome, FailureError(e))
               ELSE Over(r, "abandoned",
                         "ReferenceError: reject is not defined", resp,
                         FailureOutcome, FailureError(e))]
          /\ UNCHANGED <<sessionId, last409, hist>>
  /\ UNCHANGED <<url, auth, serverToken>>

\* The server's 409 reaches the client: axios.request rejects.
OnChallenged(i) ==
  /\ inv[i].pc = "answered"
  /\ inv[i].resp.status = 409
  /\ CatchBlock(i, inv[i].resp)

\* The exchange fails with 401, with another status or with none (no answer
\* depends on the session id, so the failure is taken where it is handled):
\* axios.request rejects.
OnFailed(i, status) ==
  /\ inv[i].pc = "sent"
  /\ CatchBlock(i, [NoResp EXCEPT !.status = status])

-----------------------------------------------------------------------------
(* The environment: the RPC server and the network.                        *)

\* The server accepts a request that carries its current session id.
ServerAccept(i) ==
  LET r == inv[i] IN
  /\ r.pc = "sent"
  /\ r.req.token = serverToken[r.client]
  /\ inv' = [inv EXCEPT ![i].pc = "answered",
                        ![i].resp = [NoResp EXCEPT !.status = 200]]
  /\ UNCHANGED <<sessionId, url, auth, serverToken, last409, hist>>

\* The server answers any other request with 409 and its session id.
ServerChallenge(i) ==
  LET r == inv[i] IN
  /\ r.pc = "sent"
  /\ r.req.token # serverToken[r.client]
  /\ inv' = [inv EXCEPT ![i].pc = "answered",
                        ![i].resp = [NoResp EXCEPT !.status = 409,
                                       !.token = serverToken[r.client]]]
  /\ UNCHANGED <<sessionId, url, auth, serverToken, last409, hist>>

\* The server starts a new session: the session id it accepts changes.
ServerRotate(c) ==
  /\ serverToken[c] < MaxToken
  /\ serverToken' = [serverToken EXCEPT ![c] = serverToken[c] + 1]
  /\ UNCHANGED <<sessionId, url, auth, inv, last409, hist>>

-----------------------------------------------------------------------------
(* Specifications.                                                         *)

\* The client instance the specifications below exercise.
Main == 1

ServerStep(i) ==
  \/ ServerAccept(i)
  \/ ServerChallenge(i)

ClientStep(i) ==
  \/ \E data \in ResponseData : OnResolved(i, data)
  \/ OnChallenged(i)

ErrorStep(i) ==
  \E status \in {401} \cup FailStatuses : OnFailed(i, status)

\* Concurrent invocations of the core operations on a client, every outcome
\* of an exchange possible.
Next ==
  \/ \E i \in Inv, op \in CoreOps : Call(Main, i, op, "given")
  \/ ServerRotate(Main)
  \/ \E i \in Inv : ServerStep(i)
  \/ \E i \in Inv : ClientStep(i)
  \/ \E i \in Inv : ErrorStep(i)

Spec == Init /\ [][Next]_vars

\* Every public operation, with and without its argument, one invocation at
\* a time, every outcome of an exchange possible.
Quiet == \A j \in Inv : ~InFlight(inv[j])

NextFacade ==
  \/ \E op \in Ops, arg \in ArgKinds : Quiet /\ Call(Main, 1, op, arg)
  \/ ServerRotate(Main)
  \/ \E i \in Inv : ServerStep(i)
  \/ \E i \in Inv : ClientStep(i)
  \/ \E i \in Inv : ErrorStep(i)

SpecFacade == Init /\ [][NextFacade]_vars

\* Concurrent invocations of getTorrents against a server that answers every
\* request with a success or a 409, over a network that delivers: the
\* request an invocation has in flight is answered, and the response handled
\* (the event loop runs the continuation of an await that has settled).
LiveOps == {"getTorrents"}

NextLive ==
  \/ \E i \in Inv, op \in LiveOps : Call(Main, i, op, "given")
  \/ ServerRotate(Main)
  \/ \E i \in Inv : ServerStep(i)
  \/ \E i \in Inv : ClientStep(i)

Fairness ==
  \A i \in Inv : WF_vars(ServerStep(i) \/ ClientStep(i))

SpecLive == Init /\ [][NextLive]_vars /\ Fairness

\* Two client instances in one process, each with its own server: the
\* invocations of one instance run one at a time and concurrently with those
\* of the other, each server answering with a success or a 409 and changing
\* its session id on its own.
Idle(c) == \A j \in Inv : InFlight(inv[j]) => inv[j].client # c

NextPair ==
  \/ \E c \in Clients, i \in Inv, op \in CoreOps :
       Idle(c) /\ Call(c, i, op, "given")
  \/ \E c \in Clients : ServerRotate(c)
  \/ \E i \in Inv : ServerStep(i)
  \/ \E i \in Inv : ClientStep(i)

SpecPair == Init /\ [][NextPair]_vars

\* Concurrent invocations of the core operations, disconnect included,
\* against a server that answers every request with a success or a 409,
\* over a network that delivers.
NextClose ==
  \/ \E i \in Inv, op \in CoreOps : Call(Main, i, op, "given")
  \/ ServerRotate(Main)
  \/ \E i \in Inv : ServerStep(i)
  \/ \E i \in Inv : ClientStep(i)

SpecClose == Init /\ [][NextClose]_vars /\ Fairness

-----------------------------------------------------------------------------
(* Steps of one invocation, as the properties below name them.             *)

\* A 409 is on its way to invocation i; a success is; i is over after a 401;
\* i is over after a failure that is neither a 409 nor a 401.
Challenged(i) == inv[i].pc = "answered" /\ inv[i].resp.status = 409
Accepted(i) == inv[i].pc = "answered" /\ inv[i].resp.status = 200
EndedBy401(r) == ~InFlight(r) /\ r.resp.status = 401
EndedByFailure(r) == ~InFlight(r) /\ r.resp.status \in FailStatuses

\* The step handles the response of i; the step starts an invocation in i;
\* the step ends i with the given status.
Handled(i) == inv[i].pc = "answered" /\ inv'[i] # inv[i]
Started(i) == ~InFlight(inv[i]) /\ inv'[i].pc = "sent"
Failed(i, status) ==
  inv[i].pc = "sent" /\ inv'[i] # inv[i] /\ inv'[i].resp.status = status

-----------------------------------------------------------------------------
(* C1 *)

\* C1: each 409 an invocation receives makes it send exactly one more
\* request, with the same method and arguments and with the token of that
\* 409, which is the most recently issued one; the 409 never reaches the
\* caller; and against a server that answers 409 and then accepts, the
\* invocation resolves with the decoded response (getTorrents() with the
\* arguments of a successful response).
C1_RetryOncePerChallenge ==
  /\ [][\A i \in Inv : (Challenged(i) /\ Handled(i)) =>
          /\ inv'[i].pc = "sent"
          /\ inv'[i].sent = inv[i].sent + 1
          /\ inv'[i].challenges = inv[i].challenges + 1
          /\ inv'[i].req.method = inv[i].req.method
          /\ inv'[i].req.args = inv[i].req.args
          /\ inv'[i].req.token = inv[i].resp.token
          /\ inv'[i].req.token = last409'[inv[i].client]]_vars
  /\ [][\A i \in Inv : (Accepted(i) /\ Handled(i)) =>
          /\ inv'[i].pc = "resolved"
          /\ inv'[i].http = "resolved"
          /\ (inv[i].op = "getTorrents" /\ inv'[i].resp.result = "success")
               => inv'[i].value = inv'[i].resp.arguments]_vars
  /\ [](\A i \in Inv : inv[i].pc \notin {"rejected", "abandoned"})
  /\ \A i \in Inv : (inv[i].pc = "sent") ~> (inv[i].pc = "resolved")

\* A getTorrents() whose first request was answered 409 and whose one retry,
\* carrying the token of that 409, has been accepted.
C1_Witness ==
  \E i \in Inv :
    /\ Accepted(i)
    /\ inv[i].op = "getTorrents"
    /\ inv[i].challenges = 1
    /\ inv[i].sent = 2
    /\ inv[i].req.token = last409[inv[i].client]
    /\ inv[i].req.token # NoToken

-----------------------------------------------------------------------------
(* C2 *)

\* C2: an invocation that a 401 ended has rejected the caller's promise with
\* the Unauthorized error.
C2_UnauthorizedRejects ==
  \A i \in Inv :
    EndedBy401(inv[i]) =>
      /\ inv[i].pc = "rejected"
      /\ inv[i].value = "Unauthorized to access RPC Server"

-----------------------------------------------------------------------------
(* C3 *)

\* C3: the step that handles a 401 for an invocation leaves the invocation
\* with no request in flight, so it sends nothing more, and leaves the
\* cached session token as it was.
C3_NoRetryAfter401 ==
  [][\A i \in Inv : Failed(i, 401) =>
       /\ ~InFlight(inv'[i])
       /\ inv'[i].sent = 0 /\ inv'[i].req = NoReq
       /\ sessionId' = sessionId]_vars

\* A 401 has ended an invocation while the client holds a session token.
C3_Witness ==
  \E i \in Inv : EndedBy401(inv[i]) /\ sessionId[inv[i].client] # NoToken

-----------------------------------------------------------------------------
(* C4 *)

\* C4, as claimed: once an exchange has succeeded, the first request of the
\* next invocation carries the token of the last 409 the client handled.
C4_FirstTokenIsLast409 ==
  [][\A i \in Inv :
       (Started(i) /\ \E j \in Inv : inv[j].pc = "resolved") =>
         inv'[i].req.token = last409[inv'[i].client]]_vars

\* C4, amended: the first request of an invocation carries the token of the
\* last 409 the client handled, unless a disconnect has returned since that
\* 409 was handled, and then it carries no token.
C4_FirstTokenIsLast409UnlessClosed ==
  [][\A i \in Inv : Started(i) =>
       inv'[i].req.token =
         IF hist[inv'[i].client].reset THEN NoToken
         ELSE last409[inv'[i].client]]_vars

\* An invocation has been started, with the token of a 409 that another
\* invocation handled, after an exchange succeeded.
C4_Witness ==
  \E i, j \in Inv :
    /\ i # j
    /\ inv[j].pc = "resolved"
    /\ inv[j].op # "disconnect"
    /\ inv[i].pc = "sent" /\ inv[i].challenges = 0
    /\ inv[i].req.token # NoToken
    /\ inv[i].req.token = last409[inv[i].client]

-----------------------------------------------------------------------------
(* C5 *)

\* C5, as claimed: the first request of the next invocation started after a
\* disconnect returned carries no session token.
C5_NoTokenAfterDisconnect ==
  [][\A i \in Inv :
       (Started(i) /\ hist[inv'[i].client].closed) =>
         inv'[i].req.token = NoToken]_vars

\* C5, amended: the step in which disconnect returns leaves the cached token
\* absent, and the first request of the next invocation started after it
\* carries no token provided the client handled no 409 (of an invocation
\* still in flight) in between.
C5_NoTokenAfterDisconnectUnlessChallenged ==
  [][/\ \A i \in Inv :
          (Accepted(i) /\ Handled(i) /\ inv[i].op = "disconnect") =>
            sessionId'[inv[i].client] = NoToken
     /\ \A i \in Inv :
          (Started(i) /\ hist[inv'[i].client].closed
                      /\ hist[inv'[i].client].reset) =>
            inv'[i].req.token = NoToken]_vars

\* An invocation has been started right after a disconnect that returned
\* while the client held a token: its request carries none.
C5_Witness ==
  \E i, j \in Inv :
    /\ i # j
    /\ inv[j].op = "disconnect" /\ inv[j].pc = "resolved"
    /\ inv[i].pc = "sent" /\ inv[i].challenges = 0
    /\ inv[i].req.token = NoToken
    /\ last409[inv[i].client] # NoToken
    /\ hist[inv[i].client].reset

-----------------------------------------------------------------------------
(* C6 *)

\* C6: for every public operation, an invocation that a failure other than
\* a 409 or a 401 ended has rejected the caller's promise with the error the
\* exchange raised.
C6_FailureRejectsUnchanged ==
  \A i \in Inv :
    EndedByFailure(inv[i]) =>
      /\ inv[i].pc = "rejected"
      /\ inv[i].value = AxiosError(inv[i].resp.status)

-----------------------------------------------------------------------------
(* C7 *)

\* C7: the step in which an exchange fails with neither a 409 nor a 401
\* leaves the invocation with no request in flight, the promise of http()
\* rejected with the error the exchange raised, and the cached session token
\* as it was.
C7_FailureEndsHttp ==
  [][\A i \in Inv, status \in FailStatuses : Failed(i, status) =>
       /\ ~InFlight(inv'[i])
       /\ inv'[i].sent = 0 /\ inv'[i].req = NoReq
       /\ inv'[i].http = "rejected"
       /\ inv'[i].httpValue = AxiosError(status)
       /\ sessionId' = sessionId]_vars

\* An exchange of a retry has failed with a status that is neither 409 nor
\* 401, while the client holds a session token.
C7_Witness ==
  \E i \in Inv :
    /\ EndedByFailure(inv[i])
    /\ inv[i].resp.status = 500
    /\ inv[i].http = "rejected"
    /\ sessionId[inv[i].client] # NoToken

-----------------------------------------------------------------------------
(* C8 *)

\* C8: with invocations in flight at once, each 409 handled leaves its token
\* in the cache, whatever the cache held, and its invocation in flight with
\* a new request; no invocation is ever rejected or abandoned; and each
\* invocation challenged while another is resolves in the end.
C8_ConcurrentChallengesResolve ==
  /\ [][\A i \in Inv : (Challenged(i) /\ Handled(i)) =>
          /\ sessionId'[inv[i].client] = inv[i].resp.token
          /\ inv'[i].pc = "sent"
          /\ inv'[i].sent > inv[i].sent]_vars
  /\ [](\A i \in Inv : inv[i].pc \in {"idle", "sent", "answered", "resolved"})
  /\ \A i, j \in Inv :
       (i # j /\ Challenged(i) /\ Challenged(j)) ~> (inv[i].pc = "resolved")

\* Two invocations on one client are challenged at once, with different
\* tokens.
C8_Witness ==
  \E i, j \in Inv :
    /\ i # j
    /\ Challenged(i) /\ Challenged(j)
    /\ inv[i].resp.token # inv[j].resp.token
    /\ inv[i].client = inv[j].client

-----------------------------------------------------------------------------
(* C9 *)

\* C9: an invocation in flight has sent one request more than the 409s it
\* has handled; a 409 never ends it and the first response that is not a
\* 409 does; and the request in flight is answered and the answer handled.
C9_LoopEndsOnFirstNon409 ==
  /\ [](\A i \in Inv : InFlight(inv[i]) =>
          inv[i].sent = inv[i].challenges + 1)
  /\ [][\A i \in Inv : Handled(i) =>
          (InFlight(inv'[i]) <=> inv[i].resp.status = 409)]_vars
  /\ \A i \in Inv : Accepted(i) ~> (inv[i].pc = "resolved")
  /\ \A i \in Inv : Challenged(i) ~> (inv[i].pc = "sent")

\* An invocation the server challenged as often as it issued a session id,
\* and then accepted: MaxToken 409s, MaxToken + 1 requests.
C9_Witness ==
  \E i \in Inv :
    /\ Accepted(i)
    /\ inv[i].challenges = MaxToken
    /\ inv[i].sent = MaxToken + 1

-----------------------------------------------------------------------------
(* C10 *)

\* The operations C10 names.
C10_RawOps == {"removeTorrent", "addTorrent", "moveTorrent", "renameTorrent",
               "setSession", "getSession", "sessionStats", "blocklistUpdate",
               "freeSpace", "groupSet", "groupGet"}
C10_NullOps == {"startTorrents", "startNowTorrents", "stopTorrents",
                "verifyTorrents", "reannounceTorrents"}

\* C10: an invocation of one of these operations that a decoded response
\* ended has resolved: with the arguments of the response when its result is
\* "success", and otherwise with the result string (the raw-string
\* operations) or with null (start, start-now, stop, verify, reannounce).
C10_FailureAsData ==
  \A i \in Inv :
    LET r == inv[i] IN
    (~InFlight(r) /\ r.resp.status = 200
                  /\ r.op \in C10_RawOps \cup C10_NullOps) =>
      /\ r.pc = "resolved"
      /\ r.value = IF r.resp.result = "success" THEN r.resp.arguments
                   ELSE IF r.op \in C10_RawOps THEN r.resp.result
                   ELSE "null"

\* removeTorrent has resolved with the result string of the response.
C10_Witness ==
  \E i \in Inv :
    /\ inv[i].op = "removeTorrent"
    /\ inv[i].pc = "resolved"
    /\ inv[i].resp.result = "no such torrent"
    /\ inv[i].value = "no such torrent"

-----------------------------------------------------------------------------
(* C11 *)

\* C11: start, start-now, stop, verify and reannounce called without ids
\* send a request for their remote method: such an invocation is in flight
\* with that request, or a response of the server has ended it, as when ids
\* is given.
C11_OmittedIdsSendsRequest ==
  \A i \in Inv :
    LET r == inv[i] IN
    (r.op \in StartOps /\ r.arg = "omitted") =>
      IF InFlight(r) THEN r.req.method = RemoteMethod(r.op)
      ELSE r.resp.status # NoResp.status

-----------------------------------------------------------------------------
(* C12 *)

\* C12: the request portTest() sends names the remote method "port-test",
\* which is not the remote method blocklistUpdate() names.
C12_PortTestMethod ==
  \A i \in Inv :
    (inv[i].op = "portTest" /\ InFlight(inv[i])) =>
      /\ inv[i].req.method = "port-test"
      /\ inv[i].req.method # RemoteMethod("blocklistUpdate")

-----------------------------------------------------------------------------
(* C13 *)

\* C13: every request of a getTorrents() called with no arguments, the first
\* one and each retry after a 409, names torrent-get with ids = 0 and
\* fields = [id, name, status, downloadedEver, uploadedEver].
C13_GetTorrentsDefaults ==
  \A i \in Inv :
    (inv[i].op = "getTorrents" /\ inv[i].arg = "omitted" /\ InFlight(inv[i])) =>
      /\ inv[i].req.method = "torrent-get"
      /\ inv[i].req.args =
           "{fields:[id,name,status,downloadedEver,uploadedEver],ids:0}"

\* The retry of a getTorrents() called with no arguments is in flight, with
\* the defaults, after a 409.
C13_Witness ==
  \E i \in Inv :
    /\ inv[i].op = "getTorrents" /\ inv[i].arg = "omitted"
    /\ inv[i].pc = "sent"
    /\ inv[i].challenges >= 1
    /\ inv[i].req.args =
         "{fields:[id,name,status,downloadedEver,uploadedEver],ids:0}"

-----------------------------------------------------------------------------
(* C14 *)

\* C14: the step that handles a 409 leaves the token of that 409 in the
\* cache of its client; the step in which a disconnect returns leaves the
\* cache absent; the step in which any other operation returns, and the
\* step in which an exchange fails with a 401 or with any other failure
\* (a disconnect's included), leave every cache as it was; and no other
\* step changes a cache.
C14_TokenChangesOnlyOn409AndDisconnect ==
  [][/\ \A i \in Inv : (Challenged(i) /\ Handled(i)) =>
          sessionId' = [sessionId EXCEPT ![inv[i].client] = inv[i].resp.token]
     /\ \A i \in Inv : (Accepted(i) /\ Handled(i)) =>
          sessionId' = IF inv[i].op = "disconnect"
                       THEN [sessionId EXCEPT ![inv[i].client] = NoToken]
                       ELSE sessionId
     /\ \A i \in Inv, status \in {401} \cup FailStatuses :
          Failed(i, status) => sessionId' = sessionId
     /\ sessionId' # sessionId =>
          \E i \in Inv :
            /\ Handled(i)
            /\ Challenged(i) \/ (Accepted(i) /\ inv[i].op = "disconnect")]_vars

\* A disconnect has failed and a getTorrents has returned, and the client
\* still holds the token of the 409 it handled.
C14_Witness ==
  \E i, j \in Inv :
    /\ inv[i].op = "disconnect" /\ EndedByFailure(inv[i])
    /\ inv[j].op = "getTorrents" /\ inv[j].pc = "resolved"
    /\ sessionId[inv[i].client] # NoToken
    /\ sessionId[inv[i].client] = last409[inv[i].client]

-----------------------------------------------------------------------------
(* C15 *)

\* C15: no step changes the endpoint URL or the encoded credential of a
\* client, and every request in flight goes to the URL and carries the
\* credential the client was constructed with.
C15_EndpointAndCredentialFixed ==
  /\ [][url' = url /\ auth' = auth]_vars
  /\ [](\A i \in Inv : InFlight(inv[i]) =>
          /\ inv[i].req.url = EndpointOf(inv[i].client)
          /\ inv[i].req.auth = CredentialOf(inv[i].client))

\* A retry is in flight, to the client's URL and with its credential, after
\* a 409 and after a disconnect that returned while it was in flight.
C15_Witness ==
  \E i, j \in Inv :
    /\ i # j
    /\ inv[i].pc = "sent" /\ inv[i].challenges >= 1
    /\ inv[i].req.url = EndpointOf(inv[i].client)
    /\ inv[i].req.auth = CredentialOf(inv[i].client)
    /\ inv[j].op = "disconnect" /\ inv[j].pc = "resolved"
    /\ hist[inv[i].client].closed

-----------------------------------------------------------------------------
(* C16 *)

\* The tokens the server of client c has issued so far are among the
\* session ids it has had.
C16_IssuedTo(c) == 1..serverToken[c]

\* C16: the step that handles a response for an invocation of one instance,
\* a 409 or the return of a disconnect included, leaves the token cached by
\* every other instance as it was; and the token an instance caches, and
\* the token each of its requests carries, is absent or a token its own
\* server issued.
C16_IndependentTokens ==
  /\ [][\A i \in Inv : Handled(i) =>
          \A c \in Clients \ {inv[i].client} : sessionId'[c] = sessionId[c]]_vars
  /\ [](\A c \in Clients : sessionId[c] \in {NoToken} \cup C16_IssuedTo(c))
  /\ [](\A i \in Inv : InFlight(inv[i]) =>
          inv[i].req.token \in {NoToken} \cup C16_IssuedTo(inv[i].client))

\* Each of the two instances has a request in flight with the token it
\* caches, and the two tokens differ: the server of one instance has issued
\* a token the server of the other has not.
C16_Witness ==
  \E i, j \in Inv :
    /\ inv[i].client # inv[j].client
    /\ inv[i].pc = "sent" /\ inv[j].pc = "sent"
    /\ inv[i].req.token = sessionId[inv[i].client]
    /\ inv[j].req.token = sessionId[inv[j].client]
    /\ inv[i].req.token # NoToken
    /\ inv[i].req.token \notin C16_IssuedTo(inv[j].client)
    /\ inv[j].req.token # NoToken

-----------------------------------------------------------------------------
(* C17 *)

\* The step builds a request for invocation i: its first one, or the retry
\* after a 409.
C17_Built(i) == Started(i) \/ (Challenged(i) /\ Handled(i))

\* C17: the token a client caches is absent or the token of the last 409
\* it handled, as the server delivered it; it is absent before the first
\* 409 and right after a disconnect returned; and each request built
\* carries the token cached when it is built.
C17_TokenIsAbsentOrDelivered ==
  /\ [](\A c \in Clients : sessionId[c] \in {NoToken, last409[c]})
  /\ [](\A c \in Clients :
          (last409[c] = NoToken \/ hist[c].reset) => sessionId[c] = NoToken)
  /\ [][\A i \in Inv : (Challenged(i) /\ Handled(i)) =>
          last409'[inv[i].client] = inv[i].resp.token]_vars
  /\ [][\A i \in Inv : C17_Built(i) =>
          inv'[i].req.token = sessionId'[inv'[i].client]]_vars

\* The client caches the token of the last 409 while an earlier request of
\* another invocation is in flight with the token cached when it was built.
C17_Witness ==
  \E i \in Inv :
    /\ inv[i].pc = "sent"
    /\ inv[i].req.token # NoToken
    /\ sessionId[inv[i].client] # NoToken
    /\ sessionId[inv[i].client] = last409[inv[i].client]
    /\ inv[i].req.token # sessionId[inv[i].client]

-----------------------------------------------------------------------------
(* C18 *)

\* C18: the step that handles a 409 for an invocation stores the token of
\* that 409 and leaves the invocation in flight with a request that carries
\* it, and no other invocation moves in that step: nothing runs between
\* the store and the resend, whatever else is in flight on the client.
C18_StoreAndResendAtomic ==
  [][\A i \in Inv : (Challenged(i) /\ Handled(i)) =>
       /\ sessionId'[inv[i].client] = inv[i].resp.token
       /\ inv'[i].pc = "sent"
       /\ inv'[i].req.token = inv[i].resp.token
       /\ \A j \in Inv \ {i} : inv'[j] = inv[j]]_vars

\* A retry is in flight with the token of its 409 while another invocation
\* of the client has a 409 with another token on its way.
C18_Witness ==
  \E i, j \in Inv :
    /\ i # j
    /\ inv[i].client = inv[j].client
    /\ inv[i].pc = "sent" /\ inv[i].challenges >= 1
    /\ inv[i].resp.status = 409
    /\ inv[i].req.token = inv[i].resp.token
    /\ Challenged(j)
    /\ inv[j].resp.token # inv[i].req.token

-----------------------------------------------------------------------------
(* C19 *)

\* C19: the step in which a disconnect returns leaves every other
\* invocation as it was; a response handled after the reset either resolves
\* its invocation (a success) or stores the token of the 409 over the reset
\* and leaves the invocation in flight with a retry that carries it; and an
\* invocation in flight when the disconnect returned resolves in the end.
C19_InFlightSurvivesDisconnect ==
  /\ [][\A i \in Inv :
          (Accepted(i) /\ Handled(i) /\ inv[i].op = "disconnect") =>
            \A j \in Inv \ {i} : inv'[j] = inv[j]]_vars
  /\ [][\A j \in Inv : (Handled(j) /\ hist[inv[j].client].reset) =>
          IF Accepted(j) THEN inv'[j].pc = "resolved"
          ELSE /\ sessionId'[inv[j].client] = inv[j].resp.token
               /\ inv'[j].pc = "sent"
               /\ inv'[j].req.token = inv[j].resp.token]_vars
  /\ \A j \in Inv :
       (InFlight(inv[j]) /\ hist[inv[j].client].closed)
         ~> (inv[j].pc = "resolved")

\* A disconnect has returned while another invocation was in flight, and
\* that invocation, challenged before, has a new 409 on its way.
C19_Witness ==
  \E i, j \in Inv :
    /\ i # j
    /\ inv[i].op = "disconnect" /\ inv[i].pc = "resolved"
    /\ hist[inv[j].client].closed
    /\ sessionId[inv[j].client] = NoToken
    /\ inv[j].op = "getTorrents"
    /\ Challenged(j)
    /\ inv[j].challenges >= 1

====
